---- MODULE Spec2Model ----
(***************************************************************************)
(* Model of rpm_praser's file-record pipeline (src/__main__.py):           *)
(* classifier, key sanitizer, link resolver, item builder, merger,         *)
(* document assembler, document emitter and main.                          *)
(*                                                                         *)
(* A Python str is a sequence of one-character strings.  A Python value    *)
(* of a record field is a tagged record [t |-> tag, v |-> payload].        *)
(***************************************************************************)
EXTENDS Integers, Sequences, FiniteSets, TLC

VARIABLES sk_path, sk_used, sk_key,
          al_linkto, al_link_path, al_src,
          rc_entry, rc_cat, rc_item,
          mg_pkg_objs, mg_out,
          as_files, as_pc, as_arg, as_doc, as_used, as_first, as_last_other,
          m_args, m_env, m_pc, m_distro, m_name, m_pkg_objs, m_yaml_data,
          m_dest, m_opens, m_emitters, m_exit,
          em_files, em_data, em_lines,
          rr_linkto, rr_link_path, rr_src, rr_again_path, rr_again

sanVars == <<sk_path, sk_used, sk_key>>

linkVars == <<al_linkto, al_link_path, al_src>>

recVars == <<rc_entry, rc_cat, rc_item>>

mergeVars == <<mg_pkg_objs, mg_out>>

asmVars == <<as_files, as_pc, as_arg, as_doc, as_used, as_first, as_last_other>>

mainVars == <<m_args, m_env, m_pc, m_distro, m_name, m_pkg_objs, m_yaml_data,
              m_dest, m_opens, m_emitters, m_exit>>

emitVars == <<em_files, em_data, em_lines>>

relinkVars == <<rr_linkto, rr_link_path, rr_src, rr_again_path, rr_again>>

vars == <<sk_path, sk_used, sk_key, al_linkto, al_link_path, al_src,
          rc_entry, rc_cat, rc_item, mg_pkg_objs, mg_out,
          as_files, as_pc, as_arg, as_doc, as_used, as_first, as_last_other,
          m_args, m_env, m_pc, m_distro, m_name, m_pkg_objs, m_yaml_data,
          m_dest, m_opens, m_emitters, m_exit,
          em_files, em_data, em_lines,
          rr_linkto, rr_link_path, rr_src, rr_again_path, rr_again>>

(***************************************************************************)
(* Bounds of the model.                                                    *)
(***************************************************************************)
MaxPathLen == 4

MaxTargetLen == 4

MaxLinkPathLen == 3

MaxFlags == 2

MaxPkgs == 2

MaxPkgFiles == 2

MaxFiles == 3

MaxOtherFiles == 1

MaxEmitFiles == 3

(***************************************************************************)
(* Python str primitives used by the source.                               *)
(***************************************************************************)
LowerLetters == {"a","b","c","d","e","f","g","h","i","j","k","l","m","n","o","p","q","r","s","t","u","v","w","x","y","z"}

DigitChars == {"0","1","2","3","4","5","6","7","8","9"}

Whitespace == {" "}

UpperSeq == <<"A","B","C","D","E","F","G","H","I","J","K","L","M","N","O","P","Q","R","S","T","U","V","W","X","Y","Z">>

LowerSeq == <<"a","b","c","d","e","f","g","h","i","j","k","l","m","n","o","p","q","r","s","t","u","v","w","x","y","z">>

DigitSeq == <<"0","1","2","3","4","5","6","7","8","9">>

\* str.lower() on one character
LowerChar(ch) ==
    IF \E i \in DOMAIN UpperSeq : UpperSeq[i] = ch
    THEN LowerSeq[CHOOSE i \in DOMAIN UpperSeq : UpperSeq[i] = ch]
    ELSE ch

\* str.lower()
Lower(s) == [i \in 1..Len(s) |-> LowerChar(s[i])]

RECURSIVE LStripChars(_, _)
\* str.lstrip(chars)
LStripChars(s, cs) ==
    IF s # <<>> /\ Head(s) \in cs THEN LStripChars(Tail(s), cs) ELSE s

RECURSIVE RStripChars(_, _)
\* str.rstrip(chars)
RStripChars(s, cs) ==
    IF s # <<>> /\ s[Len(s)] \in cs
    THEN RStripChars(SubSeq(s, 1, Len(s) - 1), cs)
    ELSE s

\* str.strip(chars); str.strip() is StripChars(s, Whitespace)
StripChars(s, cs) == RStripChars(LStripChars(s, cs), cs)

\* str.startswith(prefix)
StartsWith(s, prefix) ==
    Len(s) >= Len(prefix) /\ SubSeq(s, 1, Len(prefix)) = prefix

\* str.endswith(suffix)
EndsWith(s, suffix) ==
    Len(s) >= Len(suffix) /\ SubSeq(s, Len(s) - Len(suffix) + 1, Len(s)) = suffix

RECURSIVE IntStr(_)
\* "%d" % i and str(i) for a non-negative int
IntStr(i) ==
    IF i < 10 THEN <<DigitSeq[i + 1]>>
    ELSE IntStr(i \div 10) \o <<DigitSeq[(i % 10) + 1]>>

RECURSIVE SeqsUpTo(_, _)
\* all sequences over S of length at most n
SeqsUpTo(S, n) ==
    IF n = 0 THEN {<<>>}
    ELSE LET shorter == SeqsUpTo(S, n - 1)
         IN  shorter \cup {Append(s, x) : s \in shorter, x \in S}

(***************************************************************************)
(* Python values: None, str, int, bool, list.                              *)
(***************************************************************************)
None == [t |-> "none", v |-> <<>>]

Str(s) == [t |-> "str", v |-> s]

PInt(n) == [t |-> "int", v |-> n]

Bool(b) == [t |-> "bool", v |-> b]

List(l) == [t |-> "list", v |-> l]

Tuple(l) == [t |-> "tuple", v |-> l]

\* a dict with insertion order (OrderedDict): a sequence of <<key, value>>
Dict(pairs) == [t |-> "dict", v |-> pairs]

\* the exception a call ends with, instead of a value
Raise(exc) == [t |-> "raise", v |-> exc]

\* a result that no call has produced yet
NotCalled == [t |-> "notcalled", v |-> <<>>]

\* bool(x)
Truthy(x) ==
    CASE x.t = "none" -> FALSE
      [] x.t = "str"  -> x.v # <<>>
      [] x.t = "int"  -> x.v # 0
      [] x.t = "bool" -> x.v
      [] x.t = "list" -> x.v # <<>>
      [] x.t = "tuple" -> x.v # <<>>
      [] x.t = "dict" -> x.v # <<>>

\* x or y
Or(x, y) == IF Truthy(x) THEN x ELSE y

\* str(x), as a character sequence
PyStr(x) ==
    CASE x.t = "str"  -> x.v
      [] x.t = "int"  -> IntStr(x.v)
      [] x.t = "none" -> <<"N","o","n","e">>
      [] x.t = "bool" -> IF x.v THEN <<"T","r","u","e">> ELSE <<"F","a","l","s","e">>

(***************************************************************************)
(* _sanitize_key                                                           *)
(***************************************************************************)
S_root == <<"r","o","o","t">>

RECURSIVE SanitizeLoopDoubling(_, _, _)
SanitizeLoopDoubling(s, out_chars, prev_underscore) ==
    IF s = <<>> THEN out_chars
    ELSE LET ch == Head(s)
         IN  IF ch \in LowerLetters \/ ch \in DigitChars
             THEN SanitizeLoopDoubling(Tail(s), Append(out_chars, ch), FALSE)
             ELSE SanitizeLoopDoubling(Tail(s), Append(out_chars, "_"), TRUE)

RECURSIVE SanitizeLoop(_, _, _)
\* the for-loop over the characters of s
SanitizeLoop(s, out_chars, prev_underscore) ==
    IF s = <<>> THEN out_chars
    ELSE LET ch == Head(s)
         IN  IF ch \in LowerLetters \/ ch \in DigitChars
             THEN SanitizeLoop(Tail(s), Append(out_chars, ch), FALSE)
             ELSE IF ~prev_underscore
                  THEN SanitizeLoop(Tail(s), Append(out_chars, "_"), TRUE)
                  ELSE SanitizeLoop(Tail(s), out_chars, TRUE)

\* the key before the uniqueness step
BaseKey(path) ==
    LET s0  == StripChars(path, Whitespace)
        s1  == IF StartsWith(s0, <<"/">>) THEN Tail(s0) ELSE s0
        s2  == Lower(s1)
        key == StripChars(SanitizeLoop(s2, <<>>, FALSE), {"_"})
    IN  IF key = <<>> THEN S_root ELSE key

RECURSIVE UniqueSuffixSkipping(_, _, _)
UniqueSuffixSkipping(key, used, i) ==
    LET candidate == key \o <<"_">> \o IntStr(i + 1)
    IN  IF candidate \notin used THEN candidate
        ELSE UniqueSuffixSkipping(key, used, i + 1)

RECURSIVE UniqueSuffix(_, _, _)
\* the while-loop: first candidate key_i, i >= 2, that is not in used
UniqueSuffix(key, used, i) ==
    LET candidate == key \o <<"_">> \o IntStr(i)
    IN  IF candidate \notin used THEN candidate
        ELSE UniqueSuffix(key, used, i + 1)

SanitizeKeyNoSuffix(path, used) ==
    LET key == BaseKey(path)
    IN  [key |-> key, used |-> used \cup {key}]

\* _sanitize_key(path, used): the returned key and the mutated set
SanitizeKey(path, used) ==
    LET key == BaseKey(path)
        k   == IF key \notin used THEN key ELSE UniqueSuffix(key, used, 2)
    IN  [key |-> k, used |-> used \cup {k}]

(***************************************************************************)
(* Inputs of the sanitizer check.                                          *)
(***************************************************************************)
SanAlphabet == {"/", "a", "A", "2", "_", " "}

SanPaths == SeqsUpTo(SanAlphabet, MaxPathLen)

\* used_keys sets an assembly can have built: each member is its own base key
UsedSets == SUBSET {<<"a">>, <<"a","_","2">>, <<"a","_","3">>, S_root}

NoKey == <<"?">>

InitSanitize ==
    /\ sk_path \in SanPaths
    /\ sk_used \in UsedSets
    /\ sk_key = NoKey

CallSanitizeKey ==
    /\ sk_key = NoKey
    /\ LET r == SanitizeKey(sk_path, sk_used)
       IN  /\ sk_key' = r.key
           /\ sk_used' = r.used
    /\ UNCHANGED sk_path

NextSanitize == CallSanitizeKey /\ UNCHANGED <<linkVars, recVars, mergeVars, asmVars, mainVars, emitVars, relinkVars>>

(***************************************************************************)
(* posixpath.normpath, posixpath.dirname, posixpath.join, as called by     *)
(* _abs_link_src.                                                          *)
(***************************************************************************)
RECURSIVE SplitSlash(_, _, _)
\* str.split('/'): cur is the component being read, acc the components read
SplitSlash(s, cur, acc) ==
    IF s = <<>> THEN Append(acc, cur)
    ELSE IF Head(s) = "/" THEN SplitSlash(Tail(s), <<>>, Append(acc, cur))
         ELSE SplitSlash(Tail(s), Append(cur, Head(s)), acc)

RECURSIVE JoinSlash(_)
\* '/'.join(comps)
JoinSlash(comps) ==
    IF comps = <<>> THEN <<>>
    ELSE IF Len(comps) = 1 THEN comps[1]
         ELSE comps[1] \o <<"/">> \o JoinSlash(Tail(comps))

DotDot == <<".", ".">>

RECURSIVE NormComps(_, _, _)
\* normpath's loop over the components
NormComps(comps, new_comps, initial_slashes) ==
    IF comps = <<>> THEN new_comps
    ELSE LET comp == Head(comps)
         IN  IF comp = <<>> \/ comp = <<".">>
             THEN NormComps(Tail(comps), new_comps, initial_slashes)
             ELSE IF \/ comp # DotDot
                     \/ (initial_slashes = 0 /\ new_comps = <<>>)
                     \/ (new_comps # <<>> /\ new_comps[Len(new_comps)] = DotDot)
                  THEN NormComps(Tail(comps), Append(new_comps, comp), initial_slashes)
                  ELSE IF new_comps # <<>>
                       THEN NormComps(Tail(comps), SubSeq(new_comps, 1, Len(new_comps) - 1), initial_slashes)
                       ELSE NormComps(Tail(comps), new_comps, initial_slashes)

\* normpath's count of leading slashes: POSIX keeps exactly two
InitialSlashes(path) ==
    IF ~StartsWith(path, <<"/">>) THEN 0
    ELSE IF StartsWith(path, <<"/","/">>) /\ ~StartsWith(path, <<"/","/","/">>) THEN 2
         ELSE 1

\* posixpath.normpath(path)
NormPath(path) ==
    IF path = <<>> THEN <<".">>
    ELSE LET initial_slashes == InitialSlashes(path)
             comps  == NormComps(SplitSlash(path, <<>>, <<>>), <<>>, initial_slashes)
             joined == JoinSlash(comps)
             p      == [i \in 1..initial_slashes |-> "/"] \o joined
         IN  IF p = <<>> THEN <<".">> ELSE p

\* str.rfind('/') + 1
RFindSlash1(p) ==
    IF \E i \in 1..Len(p) : p[i] = "/"
    THEN CHOOSE i \in 1..Len(p) : p[i] = "/" /\ \A j \in (i + 1)..Len(p) : p[j] # "/"
    ELSE 0

\* posixpath.dirname(p)
Dirname(p) ==
    LET head == SubSeq(p, 1, RFindSlash1(p))
    IN  IF head # <<>> /\ head # [i \in 1..Len(head) |-> "/"]
        THEN RStripChars(head, {"/"})
        ELSE head

\* posixpath.join(a, b)
PosixJoin(a, b) ==
    IF StartsWith(b, <<"/">>) THEN b
    ELSE IF a = <<>> \/ EndsWith(a, <<"/">>) THEN a \o b
         ELSE a \o <<"/">> \o b

(***************************************************************************)
(* _abs_link_src                                                           *)
(***************************************************************************)
BaseDirUnforced(link_path) ==
    LET lp == IF PyStr(link_path) = <<>> THEN <<"/">> ELSE PyStr(link_path)
    IN  IF Dirname(lp) = <<>> THEN <<"/">> ELSE Dirname(lp)

\* the directory a relative target is resolved against
BaseDir(link_path) ==
    LET lp == IF PyStr(link_path) = <<>> THEN <<"/">> ELSE PyStr(link_path)
        d  == IF Dirname(lp) = <<>> THEN <<"/">> ELSE Dirname(lp)
    IN  IF ~StartsWith(d, <<"/">>) THEN <<"/">> \o LStripChars(d, {"/"}) ELSE d

\* _abs_link_src(linkto, link_path): None or a str
AbsLinkSrc(linkto, link_path) ==
    IF ~Truthy(linkto) THEN None
    ELSE LET lt == StripChars(PyStr(linkto), Whitespace)
         IN  IF StartsWith(lt, <<"/">>) THEN Str(NormPath(lt))
             ELSE Str(NormPath(PosixJoin(BaseDir(link_path), lt)))

(***************************************************************************)
(* Inputs of the link resolver check.                                      *)
(***************************************************************************)
TargetAlphabet == {"/", ".", "a", " "}

LinkPathAlphabet == {"/", ".", "a"}

LinkTargets == {None} \cup {Str(s) : s \in SeqsUpTo(TargetAlphabet, MaxTargetLen)}

LinkPaths == {Str(s) : s \in SeqsUpTo(LinkPathAlphabet, MaxLinkPathLen)}

InitSanitizeIdle ==
    /\ sk_path = <<>>
    /\ sk_used = {}
    /\ sk_key = NoKey

InitLinkIdle ==
    /\ al_linkto = None
    /\ al_link_path = Str(<<>>)
    /\ al_src = NotCalled

InitLink ==
    /\ al_linkto \in LinkTargets
    /\ al_link_path \in LinkPaths
    /\ al_src = NotCalled

CallAbsLinkSrc ==
    /\ al_src = NotCalled
    /\ al_src' = AbsLinkSrc(al_linkto, al_link_path)
    /\ UNCHANGED <<al_linkto, al_link_path>>

NextLink == CallAbsLinkSrc /\ UNCHANGED <<sanVars, recVars, mergeVars, asmVars, mainVars, emitVars, relinkVars>>

(***************************************************************************)
(* _abs_link_src applied to its own result: the resolved path of a link    *)
(* given as the target of another link.                                    *)
(***************************************************************************)
\* link paths of the second call: none, relative, absolute
AgainPaths == {Str(<<>>), Str(<<"a">>), Str(<<"/", "a", "/", "a">>)}

InitRelinkIdle ==
    /\ rr_linkto = None
    /\ rr_link_path = Str(<<>>)
    /\ rr_src = NotCalled
    /\ rr_again_path = Str(<<>>)
    /\ rr_again = NotCalled

InitRelink ==
    /\ rr_linkto \in LinkTargets
    /\ rr_link_path \in LinkPaths
    /\ rr_src = NotCalled
    /\ rr_again_path = Str(<<>>)
    /\ rr_again = NotCalled

\* r = _abs_link_src(linkto, link_path)
ResolveOnce ==
    /\ rr_src = NotCalled
    /\ rr_src' = AbsLinkSrc(rr_linkto, rr_link_path)
    /\ UNCHANGED <<rr_linkto, rr_link_path, rr_again_path, rr_again>>

\* _abs_link_src(r, link_path2)
ResolveAgain ==
    /\ rr_src # NotCalled
    /\ rr_src # None
    /\ rr_again = NotCalled
    /\ \E lp \in AgainPaths :
          /\ rr_again_path' = lp
          /\ rr_again' = AbsLinkSrc(rr_src, lp)
    /\ UNCHANGED <<rr_linkto, rr_link_path, rr_src>>

NextRelink ==
    \/ ResolveOnce /\ UNCHANGED <<sanVars, linkVars, recVars, mergeVars, asmVars, mainVars, emitVars>>
    \/ ResolveAgain /\ UNCHANGED <<sanVars, linkVars, recVars, mergeVars, asmVars, mainVars, emitVars>>

(***************************************************************************)
(* _category_for, _state_from_type, _build_item                            *)
(***************************************************************************)
S_config == <<"c","o","n","f","i","g">>

S_license == <<"l","i","c","e","n","s","e">>

S_doc == <<"d","o","c">>

S_link == <<"l","i","n","k">>

S_symlink == <<"s","y","m","l","i","n","k">>

S_dir == <<"d","i","r">>

S_directory == <<"d","i","r","e","c","t","o","r","y">>

S_file == <<"f","i","l","e">>

\* entry.get(name): None for an absent key
Get(entry, name) == entry[name]

CategoryForLinkFirst(entry) ==
    LET flags == Or(Get(entry, "flags"), List(<<>>))
        fset  == IF flags.t \in {"list", "tuple"}
                 THEN {Lower(PyStr(flags.v[i])) : i \in DOMAIN flags.v}
                 ELSE {}
        ftype == Lower(PyStr(Or(Get(entry, "type"), Str(<<>>))))
    IN  IF ftype = S_link THEN "general"
        ELSE IF S_config \in fset THEN "configuration"
        ELSE IF S_license \in fset THEN "licenses"
        ELSE IF S_doc \in fset THEN "docs"
        ELSE "artifacts"

\* _category_for(entry)
CategoryFor(entry) ==
    LET flags == Or(Get(entry, "flags"), List(<<>>))
        fset  == IF flags.t \in {"list", "tuple"}
                 THEN {Lower(PyStr(flags.v[i])) : i \in DOMAIN flags.v}
                 ELSE {}
        ftype == Lower(PyStr(Or(Get(entry, "type"), Str(<<>>))))
    IN  IF S_config \in fset THEN "configuration"
        ELSE IF S_license \in fset THEN "licenses"
        ELSE IF S_doc \in fset THEN "docs"
        ELSE IF ftype = S_link THEN "general"
        ELSE "artifacts"

\* _state_from_type(ftype): .lower() exists on a str only
StateFromType(ftype) ==
    LET x == Or(ftype, Str(<<>>))
    IN  IF x.t # "str" THEN Raise("AttributeError")
        ELSE LET t == Lower(x.v)
             IN  IF t = S_dir \/ t = S_directory THEN Str(S_directory)
                 ELSE IF t = S_link \/ t = S_symlink THEN Str(S_link)
                 ELSE Str(S_file)

\* the properties every item gets, in insertion order
ItemBase(entry, path_val, state) ==
    LET mode == Get(entry, "mode")
    IN  << <<"follow", Bool(FALSE)>>,
           <<"force", Bool(TRUE)>>,
           <<"group", Or(Get(entry, "group"), Str(S_root))>>,
           <<"mode", IF mode # None THEN Str(PyStr(mode)) ELSE Str(<<>>)>>,
           <<"owner", Or(Get(entry, "owner"), Str(S_root))>>,
           <<"path", path_val>>,
           <<"state", state>> >>

BuildItemSrcAlways(entry) ==
    LET path_val == Or(Get(entry, "path"), Str(<<>>))
        state    == StateFromType(Get(entry, "type"))
        src_abs  == AbsLinkSrc(Get(entry, "linkto"), path_val)
    IN  IF state.t = "raise" THEN state
        ELSE Dict(Append(ItemBase(entry, path_val, state),
                         <<"src", IF Truthy(src_abs) THEN src_abs ELSE Str(<<>>)>>))

\* _build_item(entry): the item, or the exception _state_from_type raised
BuildItem(entry) ==
    LET path_val == Or(Get(entry, "path"), Str(<<>>))
        state    == StateFromType(Get(entry, "type"))
    IN  IF state.t = "raise" THEN state
        ELSE IF state = Str(S_link)
             THEN LET src_abs == AbsLinkSrc(Get(entry, "linkto"), path_val)
                  IN  IF Truthy(src_abs)
                      THEN Dict(Append(ItemBase(entry, path_val, state), <<"src", src_abs>>))
                      ELSE Dict(ItemBase(entry, path_val, state))
             ELSE Dict(ItemBase(entry, path_val, state))

\* key in item
Has(item, key) == \E i \in DOMAIN item.v : item.v[i][1] = key

\* item[key]
Prop(item, key) == item.v[CHOOSE i \in DOMAIN item.v : item.v[i][1] = key][2]

(***************************************************************************)
(* Inputs of the record check: file records as the query layer builds      *)
(* them, and records with missing or wrong-typed fields.                   *)
(***************************************************************************)
FlagNames == {Str(S_config), Str(S_license), Str(S_doc), Str(<<"C","o","n","f","i","g">>), Str(<<"D","O","C">>), Str(<<"g","h","o","s","t">>)}

FlagValues ==
    {List(l) : l \in SeqsUpTo(FlagNames, MaxFlags)}
    \cup {None, Tuple(<<Str(S_license), Str(S_doc)>>), Str(S_config), PInt(5)}

TypeValues == {None, Str(S_file), Str(S_dir), Str(<<"D","i","r","e","c","t","o","r","y">>), Str(S_link), Str(<<"L","I","N","K">>), Str(S_symlink), Str(<<"o","t","h","e","r">>), PInt(5)}

LinktoValues == {None, Str(<<>>), Str(<<".", ".", "/", "a">>)}

PathValues == {None, Str(<<"/", "b", "/", "c">>)}

ModeValues == {None, Str(<<"0","6","4","4">>), PInt(420)}

OwnerValues == {None, Str(<<"b","i","n">>)}

Entries ==
    [flags : FlagValues, type : TypeValues, linkto : LinktoValues,
     path : PathValues, mode : ModeValues, owner : OwnerValues, group : OwnerValues]

NoEntry ==
    [flags |-> None, type |-> None, linkto |-> None, path |-> None,
     mode |-> None, owner |-> None, group |-> None]

InitRecordIdle ==
    /\ rc_entry = NoEntry
    /\ rc_cat = "?"
    /\ rc_item = NotCalled

InitRecord ==
    /\ rc_entry \in Entries
    /\ rc_cat = "?"
    /\ rc_item = NotCalled

CallCategoryFor ==
    /\ rc_cat = "?"
    /\ rc_cat' = CategoryFor(rc_entry)
    /\ UNCHANGED <<rc_entry, rc_item>>

CallBuildItem ==
    /\ rc_item = NotCalled
    /\ rc_item' = BuildItem(rc_entry)
    /\ UNCHANGED <<rc_entry, rc_cat>>

NextRecord ==
    \/ CallCategoryFor /\ UNCHANGED <<sanVars, linkVars, mergeVars, asmVars, mainVars, emitVars, relinkVars>>
    \/ CallBuildItem /\ UNCHANGED <<sanVars, linkVars, mergeVars, asmVars, mainVars, emitVars, relinkVars>>

(***************************************************************************)
(* _merge_files_from_packages                                              *)
(***************************************************************************)
RECURSIVE MergeInnerLastWins(_, _)
MergeInnerLastWins(files, acc) ==
    IF files = <<>> THEN acc
    ELSE LET f == Head(files)
             p == Get(f, "path")
         IN  IF ~Truthy(p) THEN MergeInnerLastWins(Tail(files), acc)
             ELSE IF p \in acc.seen
                  THEN MergeInnerLastWins(Tail(files),
                         [seen |-> acc.seen,
                          out  |-> [i \in DOMAIN acc.out |->
                                      IF Get(acc.out[i], "path") = p THEN f ELSE acc.out[i]]])
                  ELSE MergeInnerLastWins(Tail(files),
                         [seen |-> acc.seen \cup {p}, out |-> Append(acc.out, f)])

RECURSIVE MergeInner(_, _)
\* the inner loop over one package object's files; acc is (seen, out)
MergeInner(files, acc) ==
    IF files = <<>> THEN acc
    ELSE LET f == Head(files)
             p == Get(f, "path")
         IN  IF ~Truthy(p) \/ p \in acc.seen
             THEN MergeInner(Tail(files), acc)
             ELSE MergeInner(Tail(files),
                    [seen |-> acc.seen \cup {p}, out |-> Append(acc.out, f)])

RECURSIVE MergeOuter(_, _)
\* the outer loop over the package objects
MergeOuter(pkg_objs, acc) ==
    IF pkg_objs = <<>> THEN acc
    ELSE MergeOuter(Tail(pkg_objs),
                    MergeInner(Or(Get(Head(pkg_objs), "files"), List(<<>>)).v, acc))

\* _merge_files_from_packages(pkg_objs): the list out
MergeFilesFromPackages(pkg_objs) ==
    MergeOuter(pkg_objs, [seen |-> {}, out |-> <<>>]).out

(***************************************************************************)
(* Inputs of the merger check.                                             *)
(***************************************************************************)
FileRec(path, type, flags, mode, linkto) ==
    [flags |-> flags, type |-> type, linkto |-> linkto, path |-> path,
     mode |-> mode, owner |-> Str(S_root), group |-> Str(S_root)]

S_0644 == <<"0","6","4","4">>

S_0755 == <<"0","7","5","5">>

\* two records of /a that differ in mode, one of /b, one without a path
MergeRecords ==
    { FileRec(Str(<<"/", "a">>), Str(S_file), List(<<>>), Str(S_0644), None),
      FileRec(Str(<<"/", "a">>), Str(S_file), List(<<>>), Str(S_0755), None),
      FileRec(Str(<<"/", "b">>), Str(S_file), List(<<Str(S_config)>>), Str(S_0644), None),
      FileRec(Str(<<>>), Str(S_file), List(<<>>), Str(S_0644), None) }

PkgObjs ==
    {[files |-> None]}
    \cup {[files |-> List(l)] : l \in SeqsUpTo(MergeRecords, MaxPkgFiles)}

InitMergeIdle ==
    /\ mg_pkg_objs = <<>>
    /\ mg_out = NotCalled

InitMerge ==
    /\ mg_pkg_objs \in SeqsUpTo(PkgObjs, MaxPkgs)
    /\ mg_out = NotCalled

CallMergeFilesFromPackages ==
    /\ mg_out = NotCalled
    /\ mg_out' = List(MergeFilesFromPackages(mg_pkg_objs))
    /\ UNCHANGED mg_pkg_objs

NextMerge ==
    CallMergeFilesFromPackages /\ UNCHANGED <<sanVars, linkVars, recVars, asmVars, mainVars, emitVars, relinkVars>>

(***************************************************************************)
(* _build_yaml_data                                                        *)
(***************************************************************************)
CategoryOrderSorted == <<"artifacts", "configuration", "docs", "general", "licenses">>

\* _CATEGORY_ORDER
CategoryOrder == <<"configuration", "artifacts", "docs", "licenses", "general">>

\* d[key] = value on an OrderedDict: a present key keeps its place
DictSet(d, key, value) ==
    IF \E i \in DOMAIN d : d[i][1] = key
    THEN [i \in DOMAIN d |-> IF d[i][1] = key THEN <<key, value>> ELSE d[i]]
    ELSE Append(d, <<key, value>>)

SharedUsedKeys(previous) == previous

\* used_keys = set(): every invocation starts from its own empty set, whatever
\* set the previous invocation left behind
FreshUsedKeys(previous) == {}

RECURSIVE AsmLoop(_, _, _)
RECURSIVE AsmStep(_, _, _, _, _)
\* the body of the loop for one record: cat, r (the key and the mutated
\* used_keys) and item are the results of the three calls
AsmStep(rest, grouped, cat, r, item) ==
    IF item.t = "raise"
    THEN [t |-> "raise", used |-> r.used, grouped |-> item]
    ELSE AsmLoop(rest, r.used, [grouped EXCEPT ![cat] = DictSet(@, r.key, item)])

\* the loop over the records: the final used_keys and grouped, or the
\* exception a call raised
AsmLoop(files, used_keys, grouped) ==
    IF files = <<>> THEN [t |-> "ok", used |-> used_keys, grouped |-> grouped]
    ELSE CHOOSE result \in
             { AsmStep(Tail(files), grouped, cat, r, item) :
                   cat \in {CategoryFor(Head(files))},
                   r \in {SanitizeKey(Or(Get(Head(files), "path"), Str(<<>>)).v, used_keys)},
                   item \in {BuildItem(Head(files))} } : TRUE

\* out["files"] = OrderedDict((k, grouped[k]) for k in _CATEGORY_ORDER)
AsmDocument(r) ==
    IF r.t = "raise" THEN [doc |-> r.grouped, used |-> r.used]
    ELSE [doc  |-> Dict(<< <<"files",
                             Dict([i \in DOMAIN CategoryOrder |->
                                     <<CategoryOrder[i], Dict(r.grouped[CategoryOrder[i]])>>])>> >>),
          used |-> r.used]

\* _build_yaml_data(files): the document, and the used_keys set it built
BuildYamlData(files, previous_used) ==
    CHOOSE result \in
        { AsmDocument(r) :
              r \in {AsmLoop(files, FreshUsedKeys(previous_used),
                             [k \in {CategoryOrder[i] : i \in DOMAIN CategoryOrder} |-> <<>>])} } : TRUE

(***************************************************************************)
(* Inputs of the assembler check: records whose paths sanitize to the same *)
(* base key or to another path's suffixed key, one in every category.      *)
(***************************************************************************)
AsmRecords ==
    { FileRec(Str(<<"/", "a">>), Str(S_file), List(<<Str(S_config), Str(S_doc)>>), Str(S_0644), None),
      FileRec(Str(<<"/", "a", "!">>), Str(S_link), List(<<>>), Str(S_0755), Str(<<".", ".", "/", "a">>)),
      FileRec(Str(<<"/", "a", "_", "2">>), Str(S_dir), List(<<Str(S_doc)>>), Str(S_0755), None),
      FileRec(Str(<<"/", "A">>), Str(S_file), List(<<Str(<<"L","i","c","e","n","s","e">>)>>), Str(S_0644), None),
      FileRec(None, None, None, None, None) }

FileLists == SeqsUpTo(AsmRecords, MaxFiles)

\* the records of the other assembly: their keys 'a' and 'a_2' are the ones a
\* shared used_keys set would take away from the run under check
OtherRecords == {f \in AsmRecords : f.path \in {Str(<<"/", "A">>), Str(<<"/", "a", "_", "2">>)}}

OtherLists == SeqsUpTo(OtherRecords, MaxOtherFiles)

InitAsmIdle ==
    /\ as_files = <<>>
    /\ as_pc = "idle"
    /\ as_arg = NotCalled
    /\ as_doc = NotCalled
    /\ as_used = {}
    /\ as_first = NotCalled
    /\ as_last_other = NotCalled

InitAsm ==
    /\ as_files \in FileLists
    /\ as_pc = "start"
    /\ as_arg = NotCalled
    /\ as_doc = NotCalled
    /\ as_used = {}
    /\ as_first = NotCalled
    /\ as_last_other = NotCalled

\* the first assembly of as_files
AssembleFirst ==
    /\ as_pc = "start"
    /\ \E r \in {BuildYamlData(as_files, as_used)} :
          /\ as_doc' = r.doc
          /\ as_first' = r.doc
          /\ as_used' = r.used
    /\ as_arg' = List(as_files)
    /\ as_pc' = "first"
    /\ UNCHANGED <<as_files, as_last_other>>

\* an assembly of some other list, before or between the two
AssembleOther ==
    /\ as_pc \in {"start", "first", "between"}
    /\ \E g \in OtherLists :
          /\ \E r \in {BuildYamlData(g, as_used)} :
                /\ as_doc' = r.doc
                /\ as_used' = r.used
          /\ as_arg' = List(g)
          /\ as_last_other' = List(g)
    /\ as_pc' = (IF as_pc = "start" THEN "start" ELSE "between")
    /\ UNCHANGED <<as_files, as_first>>

\* the second assembly of as_files
AssembleSecond ==
    /\ as_pc \in {"first", "between"}
    /\ \E r \in {BuildYamlData(as_files, as_used)} :
          /\ as_doc' = r.doc
          /\ as_used' = r.used
    /\ as_arg' = List(as_files)
    /\ as_pc' = "second"
    /\ UNCHANGED <<as_files, as_first, as_last_other>>

NextAsm ==
    \/ AssembleFirst /\ UNCHANGED <<sanVars, linkVars, recVars, mergeVars, mainVars, emitVars, relinkVars>>
    \/ AssembleOther /\ UNCHANGED <<sanVars, linkVars, recVars, mergeVars, mainVars, emitVars, relinkVars>>
    \/ AssembleSecond /\ UNCHANGED <<sanVars, linkVars, recVars, mergeVars, mainVars, emitVars, relinkVars>>

(***************************************************************************)
(* validate_package_name (validators.py)                                   *)
(***************************************************************************)
S_debian == <<"d","e","b","i","a","n">>

S_ubuntu == <<"u","b","u","n","t","u">>

S_rhel == <<"r","h","e","l">>

S_fedora == <<"f","e","d","o","r","a">>

S_auto == <<"a","u","t","o">>

UpperLetters == {UpperSeq[i] : i \in DOMAIN UpperSeq}

\* one character outside ASCII
NonAscii == {"U+00E9"}

\* _POLICY_REGISTRY
PolicyRegistry ==
    [k \in {S_ubuntu, S_rhel} |->
        IF k = S_ubuntu
        THEN [min_len |-> 2, max_len |-> 128,
              start_chars |-> LowerLetters \cup DigitChars,
              allowed_chars |-> LowerLetters \cup DigitChars \cup {"+", "-", "."},
              forbidden_chars |-> {}]
        ELSE [min_len |-> 1, max_len |-> 128,
              start_chars |-> LowerLetters \cup UpperLetters \cup DigitChars,
              allowed_chars |-> LowerLetters \cup UpperLetters \cup DigitChars \cup {"+", "-", "_", "."},
              forbidden_chars |-> {":", "<", "=", ">"}]]

\* validate_package_name(name, distro): the trimmed name, or ValueError
ValidatePackageName(name, distro) ==
    LET key == Lower(StripChars(distro, Whitespace))
    IN  IF key \notin DOMAIN PolicyRegistry THEN Raise("ValueError")
        ELSE LET policy == PolicyRegistry[key]
                 s      == StripChars(name, Whitespace)
             IN  IF \E i \in DOMAIN s : s[i] \in NonAscii THEN Raise("ValueError")
                 ELSE IF \E i \in DOMAIN s : s[i] \in Whitespace THEN Raise("ValueError")
                 ELSE IF Len(s) < policy.min_len THEN Raise("ValueError")
                 ELSE IF Len(s) > policy.max_len THEN Raise("ValueError")
                 ELSE IF \E i \in DOMAIN s : s[i] \in policy.forbidden_chars THEN Raise("ValueError")
                 ELSE IF s[1] \notin policy.start_chars THEN Raise("ValueError")
                 ELSE IF \E i \in DOMAIN s : s[i] \notin policy.allowed_chars THEN Raise("ValueError")
                 ELSE Str(s)

(***************************************************************************)
(* detect_distro_keyword (os_detect.py) and _resolve_distro                *)
(***************************************************************************)
\* _DISTRO_CHOICES
DistroChoices == <<S_auto, S_debian, S_ubuntu, S_rhel, S_fedora>>

\* str.split(): the maximal runs of non-whitespace characters
RECURSIVE SplitWhitespace(_)
SplitWhitespace(s) ==
    IF s = <<>> THEN <<>>
    ELSE IF Head(s) \in Whitespace THEN SplitWhitespace(Tail(s))
         ELSE LET n == CHOOSE n \in 1..Len(s) :
                           /\ \A i \in 1..n : s[i] \notin Whitespace
                           /\ (n = Len(s) \/ s[n + 1] \in Whitespace)
              IN  <<SubSeq(s, 1, n)>> \o SplitWhitespace(SubSeq(s, n + 1, Len(s)))

\* detect_distro_keyword(choices, default): osr holds the values of ID and
\* ID_LIKE as read_os_release returns them, lower-cased ('' when absent)
DetectDistroKeyword(choices, default, osr) ==
    LET lowered == [i \in DOMAIN choices |-> Lower(choices[i])]
        IndexOf(x) == CHOOSE i \in DOMAIN lowered : lowered[i] = x /\ \A j \in 1..(i - 1) : lowered[j] # x
        In(x) == \E i \in DOMAIN lowered : lowered[i] = x
        os_id   == Lower(StripChars(Lower(osr.ID), Whitespace))
        id_like == Lower(StripChars(Lower(osr.ID_LIKE), Whitespace))
        tokens  == SplitWhitespace(id_like)
        hits    == {i \in DOMAIN tokens : In(tokens[i])}
    IN  IF os_id # <<>> /\ In(os_id) THEN choices[IndexOf(os_id)]
        ELSE IF hits # {}
             THEN choices[IndexOf(tokens[CHOOSE i \in hits : \A j \in hits : i <= j])]
        ELSE IF In(Lower(default)) THEN choices[IndexOf(Lower(default))]
        ELSE IF \E i \in DOMAIN lowered : lowered[i] # S_auto
             THEN choices[CHOOSE i \in DOMAIN lowered : lowered[i] # S_auto /\ \A j \in 1..(i - 1) : lowered[j] = S_auto]
        ELSE IF choices # <<>> THEN choices[1] ELSE <<>>

\* _resolve_distro(selected)
ResolveDistro(selected, osr) ==
    IF selected = <<>> \/ selected = S_auto
    THEN DetectDistroKeyword(Tail(DistroChoices), S_rhel, osr)
    ELSE selected

(***************************************************************************)
(* _yaml_dump: what becomes of the destination file                        *)
(***************************************************************************)
\* the file after a writer wrote all of doc, or stopped part-way
Written(by, doc) == [by |-> by, doc |-> doc]

Absent == [by |-> "nothing", doc |-> NotCalled]

\* the built-in emitter: open(path, "w") and fh.write(...)
FallbackEmit(data, env, dest, opens, emitters) ==
    IF env.fb_fail = "open"
    THEN [raised |-> TRUE, dest |-> dest, opens |-> opens + 1,
          emitters |-> Append(emitters, "fallback")]
    ELSE IF env.fb_fail = "write"
    THEN [raised |-> TRUE, dest |-> Written("partial", data), opens |-> opens + 1,
          emitters |-> Append(emitters, "fallback")]
    ELSE [raised |-> FALSE, dest |-> Written("fallback", data), opens |-> opens + 1,
          emitters |-> Append(emitters, "fallback")]

\* _yaml_dump(data, path): the try block catches every Exception, of the
\* import, of open() and of safe_dump(), and falls through to the emitter
YamlDump(data, env, dest) ==
    IF ~env.yaml
    THEN FallbackEmit(data, env, dest, 0, <<>>)
    ELSE IF env.pref_fail = "open"
    THEN FallbackEmit(data, env, dest, 1, <<"yaml">>)
    ELSE IF env.pref_fail = "dump"
    THEN FallbackEmit(data, env, Written("partial", data), 1, <<"yaml">>)
    ELSE [raised |-> FALSE, dest |-> Written("yaml", data), opens |-> 1,
          emitters |-> <<"yaml">>]

(***************************************************************************)
(* _yaml_dump: the lines of the built-in emitter.  A line is a sequence of *)
(* characters in which a literal of the program text (a category or        *)
(* property name, true, false) is one element.                             *)
(***************************************************************************)
Indent(n) == [i \in 1..n |-> " "]

RECURSIVE ReplaceQuotePlain(_)
ReplaceQuotePlain(s) ==
    IF s = <<>> THEN <<>> ELSE <<Head(s)>> \o ReplaceQuotePlain(Tail(s))

RECURSIVE ReplaceQuote(_)
\* s.replace("'", "''")
ReplaceQuote(s) ==
    IF s = <<>> THEN <<>>
    ELSE IF Head(s) = "'" THEN <<"'", "'">> \o ReplaceQuote(Tail(s))
         ELSE <<Head(s)>> \o ReplaceQuote(Tail(s))

\* q(v): quote a scalar
Q(v) ==
    IF v.t = "bool" THEN <<IF v.v THEN "true" ELSE "false">>
    ELSE IF v = None THEN <<"'", "'">>
    ELSE <<"'">> \o ReplaceQuote(PyStr(v)) \o <<"'">>

\* the order of the property loop
PropOrder == <<"follow", "force", "group", "mode", "owner", "path", "state", "src">>

RECURSIVE Flatten(_)
\* the lines appended by the iterations of a loop, in order
Flatten(parts) ==
    IF parts = <<>> THEN <<>> ELSE Head(parts) \o Flatten(Tail(parts))

\* "      %s: %s" % (prop_key, q(props[prop_key]))
PropLine(prop_key, v) == Indent(6) \o <<prop_key, ":", " ">> \o Q(v)

\* the loop over the property names of one item
PropLines(props) ==
    Flatten([i \in DOMAIN PropOrder |->
        IF Has(props, PropOrder[i]) /\ Prop(props, PropOrder[i]) # None
                                    /\ Prop(props, PropOrder[i]) # Str(<<>>)
        THEN <<PropLine(PropOrder[i], Prop(props, PropOrder[i]))>>
        ELSE IF PropOrder[i] \in {"follow", "force"} /\ Has(props, PropOrder[i])
             THEN <<PropLine(PropOrder[i], Prop(props, PropOrder[i]))>>
             ELSE <<>>])

\* the loop over the items of one category: "    %s:" % key, then the properties
ItemLines(items) ==
    Flatten([i \in DOMAIN items.v |->
        <<Indent(4) \o items.v[i][1] \o <<":">>>> \o PropLines(items.v[i][2])])

\* the loop over _CATEGORY_ORDER: "  %s:" % cat, nothing more for a category
\* without items
CategoryLines(files) ==
    Flatten([i \in DOMAIN CategoryOrder |->
        <<Indent(2) \o <<CategoryOrder[i], ":">>>> \o
        (IF files.t = "dict" /\ Has(files, CategoryOrder[i])
            /\ Truthy(Prop(files, CategoryOrder[i]))
         THEN ItemLines(Prop(files, CategoryOrder[i]))
         ELSE <<>>)])

\* lines of the built-in emitter for data
EmitLines(data) ==
    <<<<"files", ":">>>> \o
    CategoryLines(IF Has(data, "files") THEN Prop(data, "files") ELSE Dict(<<>>))

(***************************************************************************)
(* Inputs of the emitter check: documents the assembler builds from        *)
(* records with a quote in the path, an integer owner and mode, a link     *)
(* with and without a target, and a record without any field.              *)
(***************************************************************************)
EmitRecords ==
    { FileRec(Str(<<"/", "a", "'", "b">>), Str(S_file), List(<<Str(S_config)>>), Str(S_0644), None),
      FileRec(Str(<<"/", "a">>), Str(S_link), List(<<>>), Str(S_0755), Str(<<".", ".", "/", "b">>)),
      [FileRec(Str(<<"/", "a">>), Str(S_link), List(<<Str(S_doc)>>), None, None) EXCEPT !.owner = PInt(5)],
      FileRec(Str(<<"/", "d">>), Str(S_dir), List(<<Str(S_license)>>), PInt(420), None),
      FileRec(None, None, None, None, None) }

EmitLists == SeqsUpTo(EmitRecords, MaxEmitFiles)

NoLines == <<<<"?">>>>

InitEmitIdle ==
    /\ em_files = <<>>
    /\ em_data = NotCalled
    /\ em_lines = NoLines

InitEmit ==
    /\ em_files \in EmitLists
    /\ em_data = NotCalled
    /\ em_lines = NoLines

\* yaml_data = _build_yaml_data(files), then _yaml_dump(yaml_data, out_path)
\* where the yaml library cannot be imported
CallFallbackEmitter ==
    /\ em_data = NotCalled
    /\ \E data \in {BuildYamlData(em_files, {}).doc} :
          /\ em_data' = data
          /\ em_lines' = EmitLines(data)
    /\ UNCHANGED em_files

NextEmit ==
    CallFallbackEmitter /\ UNCHANGED <<sanVars, linkVars, recVars, mergeVars, asmVars, mainVars, relinkVars>>

(***************************************************************************)
(* main                                                                    *)
(***************************************************************************)
PackageArgs ==
    {None, Str(<<>>), Str(<<"a", "b">>), Str(<<"A">>), Str(<<" ", "a", "b", " ">>),
     Str(<<"a", ":", "b">>), Str(<<"a", " ", "b">>), Str(<<"a", "U+00E9">>)}

MainArgs ==
    [version : BOOLEAN, package : PackageArgs,
     distro : {DistroChoices[i] : i \in DOMAIN DistroChoices}]

OsReleases ==
    { [ID |-> <<>>, ID_LIKE |-> <<>>],
      [ID |-> S_fedora, ID_LIKE |-> <<>>],
      [ID |-> <<"c","e","n","t","o","s">>, ID_LIKE |-> S_rhel \o <<" ">> \o S_fedora],
      [ID |-> <<"U","b","u","n","t","u">>, ID_LIKE |-> S_debian] }

\* what get_installed_package_dumps does: raises, or returns package objects
QueryOutcomes ==
    {Raise("RuntimeError"), Raise("LookupError")}
    \cup {List(<<[files |-> List(<<f>>)], [files |-> List(<<g>>)]>>) : f, g \in MergeRecords}

MainEnvs ==
    [osr : OsReleases, query : QueryOutcomes, yaml : BOOLEAN,
     pref_fail : {"none", "open", "dump"}, fb_fail : {"none", "open", "write"}]

NoExit == -1

InitMainIdle ==
    /\ m_args = [version |-> TRUE, package |-> None, distro |-> S_auto]
    /\ m_env = [osr |-> [ID |-> <<>>, ID_LIKE |-> <<>>], query |-> Raise("RuntimeError"),
                yaml |-> FALSE, pref_fail |-> "none", fb_fail |-> "none"]
    /\ m_pc = "idle"
    /\ m_distro = <<>>
    /\ m_name = NotCalled
    /\ m_pkg_objs = NotCalled
    /\ m_yaml_data = NotCalled
    /\ m_dest = Absent
    /\ m_opens = 0
    /\ m_emitters = <<>>
    /\ m_exit = NoExit

InitMain ==
    /\ m_args \in MainArgs
    /\ m_env \in MainEnvs
    /\ m_pc = "start"
    /\ m_distro = <<>>
    /\ m_name = NotCalled
    /\ m_pkg_objs = NotCalled
    /\ m_yaml_data = NotCalled
    /\ m_dest = Absent
    /\ m_opens = 0
    /\ m_emitters = <<>>
    /\ m_exit = NoExit

\* --version, or no package: print and return 0
MainUsage ==
    /\ m_pc = "start"
    /\ m_args.version \/ ~Truthy(m_args.package)
    /\ m_exit' = 0
    /\ m_pc' = "done"
    /\ UNCHANGED <<m_args, m_env, m_distro, m_name, m_pkg_objs, m_yaml_data,
                   m_dest, m_opens, m_emitters>>

\* distro = _resolve_distro(args.distro)
MainResolveDistro ==
    /\ m_pc = "start"
    /\ ~m_args.version /\ Truthy(m_args.package)
    /\ m_distro' = ResolveDistro(m_args.distro, m_env.osr)
    /\ m_pc' = "validate"
    /\ UNCHANGED <<m_args, m_env, m_name, m_pkg_objs, m_yaml_data,
                   m_dest, m_opens, m_emitters, m_exit>>

\* the try block: validate_package_name, then get_installed_package_dumps
MainValidateAndQuery ==
    /\ m_pc = "validate"
    /\ LET name == ValidatePackageName(m_args.package.v, m_distro)
       IN  /\ m_name' = name
           /\ IF name.t = "raise"
              THEN m_exit' = 2 /\ m_pc' = "done" /\ m_pkg_objs' = m_pkg_objs
              ELSE IF m_env.query = Raise("LookupError")
              THEN m_exit' = 3 /\ m_pc' = "done" /\ m_pkg_objs' = m_pkg_objs
              ELSE IF m_env.query = Raise("RuntimeError")
              THEN m_exit' = 4 /\ m_pc' = "done" /\ m_pkg_objs' = m_pkg_objs
              ELSE m_exit' = m_exit /\ m_pc' = "build" /\ m_pkg_objs' = m_env.query
    /\ UNCHANGED <<m_args, m_env, m_distro, m_yaml_data, m_dest, m_opens, m_emitters>>

\* files = _merge_files_from_packages(pkg_objs); yaml_data = _build_yaml_data(files)
MainBuild ==
    /\ m_pc = "build"
    /\ m_yaml_data' = BuildYamlData(MergeFilesFromPackages(m_pkg_objs.v), {}).doc
    /\ m_pc' = "dump"
    /\ UNCHANGED <<m_args, m_env, m_distro, m_name, m_pkg_objs,
                   m_dest, m_opens, m_emitters, m_exit>>

\* _yaml_dump(yaml_data, out_path), 5 when it raises, else 0
MainYamlDump ==
    /\ m_pc = "dump"
    /\ LET r == YamlDump(m_yaml_data, m_env, m_dest)
       IN  /\ m_dest' = r.dest
           /\ m_opens' = r.opens
           /\ m_emitters' = r.emitters
           /\ m_exit' = (IF r.raised THEN 5 ELSE 0)
    /\ m_pc' = "done"
    /\ UNCHANGED <<m_args, m_env, m_distro, m_name, m_pkg_objs, m_yaml_data>>

Next ==
    \/ MainUsage /\ UNCHANGED <<sanVars, linkVars, recVars, mergeVars, asmVars, emitVars, relinkVars>>
    \/ MainResolveDistro /\ UNCHANGED <<sanVars, linkVars, recVars, mergeVars, asmVars, emitVars, relinkVars>>
    \/ MainValidateAndQuery /\ UNCHANGED <<sanVars, linkVars, recVars, mergeVars, asmVars, emitVars, relinkVars>>
    \/ MainBuild /\ UNCHANGED <<sanVars, linkVars, recVars, mergeVars, asmVars, emitVars, relinkVars>>
    \/ MainYamlDump /\ UNCHANGED <<sanVars, linkVars, recVars, mergeVars, asmVars, emitVars, relinkVars>>

Init ==
    InitMain /\ InitSanitizeIdle /\ InitLinkIdle /\ InitRecordIdle /\ InitMergeIdle /\ InitAsmIdle /\ InitEmitIdle /\ InitRelinkIdle

(***************************************************************************)
(* Specifications.                                                         *)
(***************************************************************************)
Spec == Init /\ [][Next]_vars

StartSanitize ==
    InitSanitize /\ InitLinkIdle /\ InitRecordIdle /\ InitMergeIdle /\ InitAsmIdle /\ InitMainIdle /\ InitEmitIdle /\ InitRelinkIdle

SpecSanitize == StartSanitize /\ [][NextSanitize]_vars

StartLink ==
    InitLink /\ InitSanitizeIdle /\ InitRecordIdle /\ InitMergeIdle /\ InitAsmIdle /\ InitMainIdle /\ InitEmitIdle /\ InitRelinkIdle

SpecLink == StartLink /\ [][NextLink]_vars

StartRecord ==
    InitRecord /\ InitSanitizeIdle /\ InitLinkIdle /\ InitMergeIdle /\ InitAsmIdle /\ InitMainIdle /\ InitEmitIdle /\ InitRelinkIdle

SpecRecord == StartRecord /\ [][NextRecord]_vars

StartMerge ==
    InitMerge /\ InitSanitizeIdle /\ InitLinkIdle /\ InitRecordIdle /\ InitAsmIdle /\ InitMainIdle /\ InitEmitIdle /\ InitRelinkIdle

SpecMerge == StartMerge /\ [][NextMerge]_vars

StartAsm ==
    InitAsm /\ InitSanitizeIdle /\ InitLinkIdle /\ InitRecordIdle /\ InitMergeIdle /\ InitMainIdle /\ InitEmitIdle /\ InitRelinkIdle

SpecAsm == StartAsm /\ [][NextAsm]_vars

StartEmit ==
    InitEmit /\ InitSanitizeIdle /\ InitLinkIdle /\ InitRecordIdle /\ InitMergeIdle /\ InitAsmIdle /\ InitMainIdle /\ InitRelinkIdle

SpecEmit == StartEmit /\ [][NextEmit]_vars

StartRelink ==
    InitRelink /\ InitSanitizeIdle /\ InitLinkIdle /\ InitRecordIdle /\ InitMergeIdle /\ InitAsmIdle /\ InitMainIdle /\ InitEmitIdle

SpecRelink == StartRelink /\ [][NextRelink]_vars

(***************************************************************************)
(* Helpers of the properties.                                              *)
(***************************************************************************)
RECURSIVE Runs(_, _)
\* the maximal runs, in order, of characters of s that belong to keep
Runs(s, keep) ==
    IF s = <<>> THEN <<>>
    ELSE IF Head(s) \notin keep THEN Runs(Tail(s), keep)
         ELSE LET n == CHOOSE n \in 1..Len(s) :
                           /\ \A i \in 1..n : s[i] \in keep
                           /\ (n = Len(s) \/ s[n + 1] \notin keep)
              IN  <<SubSeq(s, 1, n)>> \o Runs(SubSeq(s, n + 1, Len(s)), keep)

RECURSIVE JoinWith(_, _)
JoinWith(words, sep) ==
    IF words = <<>> THEN <<>>
    ELSE IF Len(words) = 1 THEN words[1]
         ELSE words[1] \o <<sep>> \o JoinWith(Tail(words), sep)

Alnum == LowerLetters \cup DigitChars

(***************************************************************************)
(* C4                                                                      *)
(***************************************************************************)
\* the key the claim describes: one leading '/' stripped, lower-cased, the
\* maximal runs of a-z0-9 joined by single '_', 'root' when there is none
C4_Expected(path) ==
    LET p1   == IF path # <<>> /\ path[1] = "/" THEN Tail(path) ELSE path
        runs == Runs(Lower(p1), Alnum)
    IN  IF runs = <<>> THEN S_root ELSE JoinWith(runs, "_")

C4_WellFormed(k) ==
    /\ k # <<>>
    /\ \A i \in 1..Len(k) : k[i] \in Alnum \cup {"_"}
    /\ \A i \in 1..(Len(k) - 1) : ~(k[i] = "_" /\ k[i + 1] = "_")
    /\ k[1] # "_"
    /\ k[Len(k)] # "_"

\* C4: a sanitizer call with an empty used_keys set returns the path with one
\* leading '/' stripped, lower-cased, every maximal run of characters other
\* than a-z0-9 replaced by one '_', ends trimmed, 'root' when nothing is left;
\* the key is non-empty, over a-z0-9_, without '__', without '_' at either end.
C4_SanitizedKeyShape ==
    [][(sk_key = NoKey /\ sk_used = {})
        => (sk_key' = C4_Expected(sk_path) /\ C4_WellFormed(sk_key'))]_vars

\* a path with a capital, a run of two separators and a digit, sanitized
\* against the empty set
C4_Witness ==
    /\ sk_path = <<"A", "_", " ", "2">>
    /\ sk_key = <<"a", "_", "2">>
    /\ sk_used = {<<"a", "_", "2">>}

(***************************************************************************)
(* C5                                                                      *)
(***************************************************************************)
NonSlash == (TargetAlphabet \cup LinkPathAlphabet) \ {"/"}

RECURSIVE C5_Fold(_, _)
\* lexical resolution of path words: '.' is dropped, '..' removes the word
\* before it (nothing at the root)
C5_Fold(words, stack) ==
    IF words = <<>> THEN stack
    ELSE IF Head(words) = <<".">> THEN C5_Fold(Tail(words), stack)
    ELSE IF Head(words) = <<".", ".">>
         THEN C5_Fold(Tail(words), IF stack = <<>> THEN stack ELSE SubSeq(stack, 1, Len(stack) - 1))
         ELSE C5_Fold(Tail(words), Append(stack, Head(words)))

\* the part of the link path up to its last '/'
C5_DirPart(lp) ==
    IF \E i \in 1..Len(lp) : lp[i] = "/"
    THEN SubSeq(lp, 1, CHOOSE i \in 1..Len(lp) : lp[i] = "/" /\ \A j \in (i + 1)..Len(lp) : lp[j] # "/")
    ELSE <<>>

C5_TwoLeadingSlashes(s) ==
    /\ Len(s) >= 2 /\ s[1] = "/" /\ s[2] = "/"
    /\ (Len(s) >= 3 => s[3] # "/")

\* the resolved path for target t (a str) and the link path, with `lead` the
\* slashes it starts with
C5_Resolved(t, lp, lead) ==
    LET absolute == t # <<>> /\ t[1] = "/"
        dirWords == IF absolute THEN <<>> ELSE Runs(C5_DirPart(lp), NonSlash)
    IN  lead \o JoinWith(C5_Fold(dirWords \o Runs(t, NonSlash), <<>>), "/")

C5_NoDotComponents(r) ==
    LET words == Runs(r, NonSlash)
    IN  \A i \in 1..Len(words) : words[i] # <<".">> /\ words[i] # <<".", ".">>

C5_NoRedundantSeparators(r) ==
    /\ \A i \in 1..(Len(r) - 1) : ~(r[i] = "/" /\ r[i + 1] = "/")
    /\ (Len(r) > 1 => r[Len(r)] # "/")

C5_NonEmptyTarget == al_linkto.t = "str" /\ al_linkto.v # <<>>

C2_HasFlag(entry, name) ==
    /\ entry.flags.t \in {"list", "tuple"}
    /\ \E i \in DOMAIN entry.flags.v : Lower(PyStr(entry.flags.v[i])) = name

C2_IsLinkType(entry) == entry.type.t = "str" /\ Lower(entry.type.v) = S_link

\* C2: the classifier picks the first match of config -> configuration,
\* license -> licenses, doc -> docs, type link -> general, else artifacts,
\* flags compared case-insensitively; a flag category beats the link rule.
C2_ClassificationPriority ==
    rc_cat # "?" =>
        /\ rc_cat = (IF C2_HasFlag(rc_entry, S_config) THEN "configuration"
                     ELSE IF C2_HasFlag(rc_entry, S_license) THEN "licenses"
                     ELSE IF C2_HasFlag(rc_entry, S_doc) THEN "docs"
                     ELSE IF C2_IsLinkType(rc_entry) THEN "general"
                     ELSE "artifacts")
        /\ (rc_cat = "general" =>
               \A f \in {S_config, S_license, S_doc} : ~C2_HasFlag(rc_entry, f))
        /\ (C2_HasFlag(rc_entry, S_config) => rc_cat = "configuration")

\* a symlink flagged doc and, in capitals, config: classified configuration
C2_Witness ==
    /\ rc_entry.flags = List(<<Str(S_doc), Str(<<"C","o","n","f","i","g">>)>>)
    /\ rc_entry.type = Str(S_link)
    /\ rc_cat = "configuration"

(***************************************************************************)
(* C6                                                                      *)
(***************************************************************************)
C6_TypeIs(entry, names) == entry.type.t = "str" /\ Lower(entry.type.v) \in names

C6_HasTarget(entry) == entry.linkto.t = "str" /\ entry.linkto.v # <<>>

\* C6: a built item has follow = false and force = true; its state is
\* directory for dir/directory, link for link/symlink, file otherwise; it has
\* the property src exactly when its state is link and the record has a
\* non-empty link target, and then src is the resolved path, never empty.
C6_ItemSrcOnlyForLinks ==
    rc_item.t = "dict" =>
        /\ Prop(rc_item, "follow") = Bool(FALSE)
        /\ Prop(rc_item, "force") = Bool(TRUE)
        /\ Prop(rc_item, "state") =
               (IF C6_TypeIs(rc_entry, {S_dir, S_directory}) THEN Str(S_directory)
                ELSE IF C6_TypeIs(rc_entry, {S_link, S_symlink}) THEN Str(S_link)
                ELSE Str(S_file))
        /\ (Has(rc_item, "src") <=>
               (Prop(rc_item, "state") = Str(S_link) /\ C6_HasTarget(rc_entry)))
        /\ (Has(rc_item, "src") =>
               /\ Prop(rc_item, "src").t = "str"
               /\ Prop(rc_item, "src").v # <<>>
               /\ Prop(rc_item, "src") =
                      AbsLinkSrc(rc_entry.linkto, Or(rc_entry.path, Str(<<>>))))
        /\ Cardinality({i \in DOMAIN rc_item.v : rc_item.v[i][1] = "src"}) <= 1

\* a symlink record with a relative target: its item carries the resolved src
C6_Witness ==
    /\ rc_entry.type = Str(S_symlink)
    /\ rc_entry.linkto = Str(<<".", ".", "/", "a">>)
    /\ rc_entry.path = Str(<<"/", "b", "/", "c">>)
    /\ rc_item.t = "dict"
    /\ Has(rc_item, "src")
    /\ Prop(rc_item, "src") = Str(<<"/", "a">>)

(***************************************************************************)
(* C10                                                                     *)
(***************************************************************************)
\* C10 as stated: on a record with missing or wrong-typed fields (flags
\* absent or not list-like, type absent or not a string, mode, owner, group,
\* path absent) neither the classifier nor the item builder raises, and the
\* defaults apply: empty flag set, artifacts, file, root, '' mode, '' path.
C10_NeverRaises ==
    /\ rc_item # NotCalled => rc_item.t = "dict"
    /\ (rc_item.t = "dict" /\ rc_entry.type.t # "str") =>
           Prop(rc_item, "state") = Str(S_file)
    /\ (rc_item.t = "dict" /\ rc_entry.mode = None) =>
           Prop(rc_item, "mode") = Str(<<>>)
    /\ (rc_item.t = "dict" /\ rc_entry.owner = None) =>
           Prop(rc_item, "owner") = Str(S_root)
    /\ (rc_item.t = "dict" /\ rc_entry.group = None) =>
           Prop(rc_item, "group") = Str(S_root)
    /\ (rc_item.t = "dict" /\ rc_entry.path = None) =>
           Prop(rc_item, "path") = Str(<<>>)
    /\ (rc_cat # "?" /\ rc_entry.flags.t \notin {"list", "tuple"}
           /\ rc_entry.type.t # "str") => rc_cat = "artifacts"

(***************************************************************************)
(* C3                                                                      *)
(***************************************************************************)
RECURSIVE C3_Flat(_)
\* the file records of all package objects, in input order
C3_Flat(pkg_objs) ==
    IF pkg_objs = <<>> THEN <<>>
    ELSE (IF Head(pkg_objs).files.t = "list" THEN Head(pkg_objs).files.v ELSE <<>>)
         \o C3_Flat(Tail(pkg_objs))

\* the positions of the records with a non-empty path not seen before
C3_Kept(flat) ==
    {i \in 1..Len(flat) :
        /\ flat[i].path.t = "str" /\ flat[i].path.v # <<>>
        /\ \A j \in 1..(i - 1) : flat[j].path # flat[i].path}

\* C3: the merger returns exactly the records with a non-empty path that did
\* not occur earlier in the flattened input, each with the metadata of its
\* first occurrence, in first-seen order.
C3_MergeKeepsFirst ==
    mg_out.t = "list" =>
        LET flat == C3_Flat(mg_pkg_objs)
            kept == C3_Kept(flat)
        IN  /\ Len(mg_out.v) = Cardinality(kept)
            /\ \A k \in 1..Len(mg_out.v) :
                   mg_out.v[k] =
                     flat[CHOOSE i \in kept : Cardinality({j \in kept : j < i}) = k - 1]

\* /a listed by two package objects with different modes, and /b after it:
\* the first package's /a record is kept, then /b
C3_Witness ==
    /\ Len(mg_pkg_objs) = 2
    /\ mg_out.t = "list"
    /\ Len(mg_out.v) = 2
    /\ mg_out.v[1].path = Str(<<"/", "a">>) /\ mg_out.v[1].mode = Str(S_0644)
    /\ mg_out.v[2].path = Str(<<"/", "b">>)
    /\ mg_pkg_objs[2].files.t = "list"
    /\ Len(mg_pkg_objs[2].files.v) = 2
    /\ mg_pkg_objs[2].files.v[1].path = Str(<<"/", "a">>)
    /\ mg_pkg_objs[2].files.v[1].mode = Str(S_0755)

(***************************************************************************)
(* C1                                                                      *)
(***************************************************************************)
RECURSIVE C1_Concat(_)
C1_Concat(cats) ==
    IF cats = <<>> THEN <<>> ELSE Head(cats)[2].v \o C1_Concat(Tail(cats))

\* the identifier keys of all entries of the document, category by category
C1_AllKeys(doc) ==
    LET entries == C1_Concat(Prop(doc, "files").v)
    IN  [i \in DOMAIN entries |-> entries[i][1]]

\* C1: no two entries of an assembled document, across all five categories
\* together, have the same identifier key.
C1_KeysUnique ==
    as_doc.t = "dict" =>
        LET keys == C1_AllKeys(as_doc)
        IN  \A i, j \in DOMAIN keys : i # j => keys[i] # keys[j]

\* /a, /a! and /a_2 assembled in this order: keys a, a_2 and a_2_2
C1_Witness ==
    /\ as_doc.t = "dict"
    /\ as_arg.t = "list"
    /\ [i \in DOMAIN as_arg.v |-> as_arg.v[i].path] =
          <<Str(<<"/", "a">>), Str(<<"/", "a", "!">>), Str(<<"/", "a", "_", "2">>)>>
    /\ {C1_AllKeys(as_doc)[i] : i \in DOMAIN C1_AllKeys(as_doc)} =
          {<<"a">>, <<"a", "_", "2">>, <<"a", "_", "2", "_", "2">>}

(***************************************************************************)
(* C7                                                                      *)
(***************************************************************************)
\* C7: the document has the single root key files, holding the five
\* categories once each in the fixed order; every input record yields one
\* entry, in the category the classifier returns for it, in processing order.
C7_DocumentShape ==
    as_doc.t = "dict" =>
        /\ Len(as_doc.v) = 1
        /\ as_doc.v[1][1] = "files"
        /\ LET cats == as_doc.v[1][2].v
           IN  /\ [i \in DOMAIN cats |-> cats[i][1]] =
                     <<"configuration", "artifacts", "docs", "licenses", "general">>
               /\ \A c \in DOMAIN cats :
                     LET recs    == SelectSeq(as_arg.v, LAMBDA f : CategoryFor(f) = cats[c][1])
                         entries == cats[c][2].v
                     IN  /\ Len(entries) = Len(recs)
                         /\ \A i \in DOMAIN entries : entries[i][2] = BuildItem(recs[i])

\* three records in three categories, two categories left empty
C7_Witness ==
    /\ as_doc.t = "dict"
    /\ Len(as_arg.v) = 3
    /\ Len(Prop(Prop(as_doc, "files"), "configuration").v) = 1
    /\ Len(Prop(Prop(as_doc, "files"), "general").v) = 1
    /\ Len(Prop(Prop(as_doc, "files"), "licenses").v) = 1
    /\ Prop(Prop(as_doc, "files"), "docs").v = <<>>
    /\ Prop(Prop(as_doc, "files"), "artifacts").v = <<>>

(***************************************************************************)
(* C8                                                                      *)
(***************************************************************************)
\* C8: a second assembly of the same record list returns the document the
\* first one returned, whatever other assemblies ran before or in between.
C8_RepeatableAssembly ==
    as_pc = "second" => as_doc = as_first

\* two colliding records assembled, another assembly using the same base key,
\* then the two records assembled again
C8_Witness ==
    /\ as_pc = "second"
    /\ as_last_other.t = "list"
    /\ Len(as_last_other.v) = 1
    /\ as_last_other.v[1].path = Str(<<"/", "A">>)
    /\ Len(as_files) = 2
    /\ as_files[1].path = Str(<<"/", "a">>)
    /\ as_files[2].path = Str(<<"/", "a", "!">>)
    /\ as_doc.t = "dict"
    /\ as_used = {<<"a">>, <<"a", "_", "2">>}


(***************************************************************************)
(* C9                                                                      *)
(***************************************************************************)
\* the dump step has run with the library importable and its write failing
C9_PreferredWriteFailed ==
    /\ m_pc = "done"
    /\ m_emitters # <<>>
    /\ m_env.yaml
    /\ m_env.pref_fail # "none"

\* C9: when the serialization library is available and the preferred write
\* fails, the fallback emitter is not run, the destination is not opened
\* for writing a second time, and main returns exit status 5.
C9_WriteFailureIsTerminal ==
    C9_PreferredWriteFailed =>
        /\ m_emitters = <<"yaml">>
        /\ m_opens = 1
        /\ m_exit = 5


(***************************************************************************)
(* C11                                                                     *)
(***************************************************************************)
C11_Order == <<"follow", "force", "group", "mode", "owner", "path", "state", "src">>

RECURSIVE C11_Doubled(_)
\* s with every single quote written twice
C11_Doubled(s) ==
    IF s = <<>> THEN <<>>
    ELSE C11_Doubled(SubSeq(s, 1, Len(s) - 1))
         \o (IF s[Len(s)] = "'" THEN <<"'", "'">> ELSE <<s[Len(s)]>>)

\* true/false bare, any other scalar between single quotes
C11_Scalar(v) ==
    IF v.t = "bool" THEN (IF v.v THEN <<"true">> ELSE <<"false">>)
    ELSE <<"'">> \o C11_Doubled(IF v = None THEN <<>> ELSE PyStr(v)) \o <<"'">>

\* a property line is written when the property is present with a value
\* other than null and '', or when it is follow or force
C11_Written(item, p) ==
    \/ (Has(item, p) /\ Prop(item, p) # None /\ Prop(item, p) # Str(<<>>))
    \/ p \in {"follow", "force"}

C11_Value(item, p) == IF Has(item, p) THEN Prop(item, p) ELSE None

\* the key line of an entry and its property lines
C11_Entry(key, item) ==
    LET Test(p) == C11_Written(item, p)
        props   == SelectSeq(C11_Order, Test)
    IN  <<<<" ", " ", " ", " ">> \o key \o <<":">>>>
        \o [i \in DOMAIN props |->
               <<" ", " ", " ", " ", " ", " ", props[i], ":", " ">>
               \o C11_Scalar(C11_Value(item, props[i]))]

RECURSIVE C11_Entries(_)
C11_Entries(pairs) ==
    IF pairs = <<>> THEN <<>>
    ELSE C11_Entry(pairs[1][1], pairs[1][2]) \o C11_Entries(Tail(pairs))

\* the category line and the lines of its entries
C11_Category(data, cat) ==
    <<<<" ", " ", cat, ":">>>> \o C11_Entries(Prop(Prop(data, "files"), cat).v)

C11_Expected(data) ==
    <<<<"files", ":">>>>
    \o C11_Category(data, "configuration") \o C11_Category(data, "artifacts")
    \o C11_Category(data, "docs") \o C11_Category(data, "licenses")
    \o C11_Category(data, "general")

C11_LinesOf(p) ==
    {i \in DOMAIN em_lines : Len(em_lines[i]) > 7 /\ em_lines[i][6] = " " /\ em_lines[i][7] = p}

\* C11: the built-in emitter writes 'files:', the five category lines in
\* fixed order at two spaces (an empty category without child lines), per
\* entry the key line at four spaces and the property lines at six spaces in
\* the order follow, force, group, mode, owner, path, state, src, a property
\* being written exactly when it is present with a value other than null
\* and '' or is follow/force (once each per entry); booleans are bare
\* true/false, other scalars single-quoted with single quotes doubled.
C11_EmitterLines ==
    em_data.t = "dict" =>
        /\ em_lines = C11_Expected(em_data)
        /\ Cardinality(C11_LinesOf("follow")) = Len(em_files)
        /\ Cardinality(C11_LinesOf("force")) = Len(em_files)
        /\ Cardinality({i \in DOMAIN em_lines : Len(em_lines[i]) = 4 /\ em_lines[i][2] = " "}) = 5

\* a path with a quote, a link with its src, and a record without fields,
\* which leaves the mode and path lines out and two categories empty
C11_Witness ==
    /\ em_data.t = "dict"
    /\ Len(em_files) = 3
    /\ em_files[1].path = Str(<<"/", "a", "'", "b">>)
    /\ em_files[2].linkto = Str(<<".", ".", "/", "b">>)
    /\ em_files[3].path = None
    /\ \E i \in DOMAIN em_lines :
          em_lines[i] = <<" ", " ", " ", " ", " ", " ", "path", ":", " ",
                          "'", "/", "a", "'", "'", "b", "'">>
    /\ \E i \in DOMAIN em_lines :
          em_lines[i] = <<" ", " ", " ", " ", " ", " ", "src", ":", " ", "'", "/", "b", "'">>
    /\ \E i \in 1..(Len(em_lines) - 1) :
          em_lines[i] = <<" ", " ", "docs", ":">> /\ em_lines[i + 1] = <<" ", " ", "licenses", ":">>


(***************************************************************************)
(* C12                                                                     *)
(***************************************************************************)
\* C12: link resolution is idempotent: a path r returned by the resolver,
\* given again as the target against any link path, is returned unchanged.
C12_Idempotent ==
    (rr_again # NotCalled) => rr_again = rr_src


(***************************************************************************)
(* C13                                                                     *)
(***************************************************************************)
\* base_n
C13_Suffixed(base, n) == base \o <<"_">> \o IntStr(n)

\* C13: when the base key of the path is already in used_keys the sanitizer
\* returns base_n for the smallest n >= 2 that is not in used_keys (the base
\* key itself when it is free), and the call changes used_keys by adding
\* exactly the returned key.
C13_SmallestSuffixAndFrame ==
    [][(sk_key = NoKey) =>
          LET base == C4_Expected(sk_path)
          IN  /\ sk_used' = sk_used \cup {sk_key'}
              /\ sk_key' \notin sk_used
              /\ (base \notin sk_used => sk_key' = base)
              /\ (base \in sk_used =>
                     \E n \in 2..(Cardinality(sk_used) + 2) :
                        /\ sk_key' = C13_Suffixed(base, n)
                        /\ \A k \in 2..(n - 1) : C13_Suffixed(base, k) \in sk_used)]_vars

\* the base key and its suffixes 2 and 3 are taken: the call returns a_4
C13_Witness ==
    /\ sk_path = <<"/", "A">>
    /\ sk_key = <<"a", "_", "4">>
    /\ sk_used = {<<"a">>, <<"a", "_", "2">>, <<"a", "_", "3">>, <<"a", "_", "4">>}


(***************************************************************************)
(* C14                                                                     *)
(***************************************************************************)
\* C14: every policy name main passes to validate_package_name (a --distro
\* choice other than auto, or the keyword auto-detection returns) has a
\* policy in the registry, so the name 'ab', which satisfies the rules of
\* every policy, is returned and main does not end with exit status 2.
C14_EveryDistroHasPolicy ==
    /\ (m_distro # <<>>) =>
           Lower(StripChars(m_distro, Whitespace)) \in DOMAIN PolicyRegistry
    /\ (m_pc = "done" /\ m_name # NotCalled /\ m_args.package = Str(<<"a", "b">>)) =>
           (m_name = Str(<<"a", "b">>) /\ m_exit # 2)

============================================================================
